---- MODULE Spec2Model ----
(***************************************************************************)
(* A model of aiohttp_graphql.GraphQLView: one view instance (its          *)
(* configuration fixed by __init__) answering HTTP requests.  A request is *)
(* handled by GraphQLView.__call__, which is split here at its awaits.     *)
(* The GraphQL engine (validate_schema, parse, get_operation_ast,          *)
(* validate, execute) is a collaborator outside the repository: what it    *)
(* answers for a request is an input of the handler.                       *)
(***************************************************************************)
EXTENDS Integers, Sequences, FiniteSets, TLC

VARIABLES cfg, pc, req, answers, local, calls, resp

vars == <<cfg, pc, req, answers, local, calls, resp>>

(***************************************************************************)
(* Values                                                                  *)
(***************************************************************************)

\* A missing key, header or parameter (Python's None / a .get() miss).
Absent == "<absent>"

\* Names of GraphQL variables, and the values they take (0: the name is not
\* in the mapping).
Keys == {"a", "b"}

MaxVal == 2

Maps == [Keys -> 0..MaxVal]

EmptyMap == [k \in Keys |-> 0]

\* A JSON value as Python holds it.  k: "absent" (no such key), "null",
\* "num" (a non-zero number), "obj" (a dict, m its items) or "str" (a string).
\* For a string, s says what its text is as JSON: "bad" (not JSON), "empty"
\* (the empty string), "null" (the text null) or "obj" (the text of the
\* object m).
JAbsent == [k |-> "absent", s |-> "-", m |-> EmptyMap]

JNull == [k |-> "null", s |-> "-", m |-> EmptyMap]

JNum == [k |-> "num", s |-> "-", m |-> EmptyMap]

JObj(m) == [k |-> "obj", s |-> "-", m |-> m]

JStr(s, m) == [k |-> "str", s |-> s, m |-> m]

\* json.loads(v): [exc, val].  A text that is not JSON (the empty text too)
\* raises JSONDecodeError; an argument that is no string raises TypeError.
JsonLoads(v) ==
    IF v.k # "str" THEN [exc |-> "TypeError", val |-> JNull]
    ELSE IF v.s \in {"bad", "empty"} THEN [exc |-> "JSONDecodeError", val |-> JNull]
    ELSE IF v.s = "null" THEN [exc |-> "none", val |-> JNull]
    ELSE [exc |-> "none", val |-> JObj(v.m)]

\* Python truth of a JSON value (the `or {}` of line 144).
Truthy(v) ==
    CASE v.k \in {"absent", "null"} -> FALSE
      [] v.k = "obj" -> v.m # EmptyMap
      [] v.k = "str" -> v.s # "empty"
      [] OTHER -> TRUE

\* dict.update: the items of `other` laid over those of `base`.
Update_KeepBase(base, other) ==
    [k \in Keys |-> IF base[k] # 0 THEN base[k] ELSE other[k]]

Update(base, other) == [k \in Keys |-> IF other[k] # 0 THEN other[k] ELSE base[k]]

\* str.lower() of the request method, str.upper() of a header value.
Lower(s) ==
    CASE s = "GET" -> "get"
      [] s = "POST" -> "post"
      [] s = "OPTIONS" -> "options"
      [] s = "PUT" -> "put"
      [] OTHER -> s

Upper(s) ==
    CASE s = "post" -> "POST"
      [] s = "get" -> "GET"
      [] OTHER -> s

\* `needle in header`: the media ranges each Accept value of the model holds.
\* headers.get("accept", {}) is {} when the header is missing: nothing is in it.
Contains(header, needle) ==
    CASE header = "text/html" -> needle = "text/html"
      [] header = "*/*" -> needle = "*/*"
      [] header = "text/html,*/*;q=0.8" -> needle \in {"text/html", "*/*"}
      [] OTHER -> FALSE

(***************************************************************************)
(* The view's configuration: GraphQLView.__init__                          *)
(***************************************************************************)

DefaultMaxAge == 86400

MaxAges == {DefaultMaxAge, 600}

\* str(self.max_age)
Str(n) ==
    CASE n = 86400 -> "86400"
      [] n = 600 -> "600"
      [] OTHER -> "?"

\* A context: nothing (None), a mapping (m its entries, Absent: no such key)
\* or a value that is no mapping.
CtxKeys == {"request", "user"}

NoEntries == [k \in CtxKeys |-> Absent]

CtxNone == [k |-> "none", m |-> NoEntries]

CtxMapping(m) == [k |-> "mapping", m |-> m]

CtxOpaque == [k |-> "opaque", m |-> NoEntries]

Contexts ==
    { CtxNone, CtxOpaque,
      CtxMapping(NoEntries),
      CtxMapping([NoEntries EXCEPT !["user"] = "cfg-user"]),
      CtxMapping([NoEntries EXCEPT !["request"] = "cfg-request", !["user"] = "cfg-user"]) }

Configs ==
    [ tool : BOOLEAN, pretty : BOOLEAN, context : Contexts, max_age : MaxAges ]

(***************************************************************************)
(* Requests                                                                *)
(***************************************************************************)

\* The `query` text of a request: missing, empty, or a GraphQL text.
Queries == {Absent, "", "Q"}

\* The body of a request.  k: "none" (no body read), "bad" (text that is not
\* JSON), "nonobj" (JSON text of something that is no object), "obj" (JSON
\* text of an object with the fields given), "form" (form fields) or "text"
\* (GraphQL text, held in query).
Body(k, q, v, o) == [k |-> k, query |-> q, variables |-> v, operationName |-> o]

NoBody == Body("none", Absent, JAbsent, Absent)

\* method, the query string's parameters (q_raw: whether `raw` is among
\* them), the headers read by the view, the content type and the body.
BaseRequest(method) ==
    [ method |-> method, q_query |-> Absent, q_variables |-> JAbsent,
      q_operationName |-> Absent, q_pretty |-> Absent, q_raw |-> FALSE,
      accept |-> Absent, origin |-> Absent, acrm |-> Absent,
      content_type |-> "application/octet-stream", body |-> NoBody ]

\* What the engine answers for a request: validate_schema's errors, whether
\* parse succeeds, the operation get_operation_ast finds ("none": no
\* operation), validate's errors, and execute's result.
Answers(se, po, op, ve, d, e) ==
    [ schema_errors |-> se, parse_ok |-> po, op |-> op,
      validation_errors |-> ve, data |-> d, errors |-> e ]

OkAnswers == Answers(FALSE, TRUE, "query", FALSE, "D", FALSE)

Ops == {"none", "query", "mutation", "subscription"}

EngineAnswers ==
    { Answers(TRUE, TRUE, "query", FALSE, "D", FALSE),
      Answers(FALSE, FALSE, "query", FALSE, "D", FALSE) }
    \cup { Answers(FALSE, TRUE, op, TRUE, "D", FALSE) : op \in Ops }
    \cup { Answers(FALSE, TRUE, op, FALSE, res[1], res[2]) :
             op \in Ops, res \in {<<"D", FALSE>>, <<"D", TRUE>>, <<"null", TRUE>>} }

Scenario(request, a) == [request |-> request, answers |-> a]

\* The query-string `variables`: missing, not JSON, the JSON text null, or
\* the JSON text of an object.
QsVarClasses == {JAbsent, JStr("bad", EmptyMap), JStr("null", EmptyMap)}

QsVarObjs == {JStr("obj", m) : m \in Maps}

\* The body's `variables` when it is no mapping.
BodyVarClasses ==
    { JAbsent, JNull, JNum, JStr("bad", EmptyMap), JStr("null", EmptyMap),
      JStr("empty", EmptyMap) }

Accepts == {Absent, "text/html", "*/*", "application/json"}

Pretties == {Absent, "", "1"}

\* The engine is asked only about a request that has a query.
AnswersFor(q) == IF q = "Q" THEN EngineAnswers ELSE {OkAnswers}

\* The requests handled are families, each the product of the inputs of one
\* concern of the handler with the other inputs at a fixed value.
\* GET requests: the tool negotiation, `pretty` and the engine's answers; the
\* query-string variables.
GetScenarios ==
    UNION { { Scenario([BaseRequest("GET") EXCEPT !.q_query = q, !.q_variables = v,
                          !.q_operationName = o, !.q_raw = w, !.accept = h,
                          !.q_pretty = p], a) :
                v \in QsVarClasses, o \in {Absent, "A"}, w \in BOOLEAN,
                h \in Accepts, p \in Pretties, a \in AnswersFor(q) } :
            q \in Queries }
    \cup
    { Scenario([BaseRequest("GET") EXCEPT !.q_query = "Q", !.q_variables = v],
               OkAnswers) : v \in QsVarObjs }

\* POST requests (sent with the Accept of a browser): the kinds of JSON
\* body; the engine's answers and `pretty`; the variables of the query string
\* and of the body; the other content types.
PostRequest(ct, body) ==
    [BaseRequest("POST") EXCEPT !.accept = "text/html", !.content_type = ct,
                                !.body = body]

PostScenarios ==
    { Scenario([PostRequest("application/json", b) EXCEPT !.q_variables = v,
                  !.q_operationName = o], OkAnswers) :
        v \in QsVarClasses, o \in {Absent, "A"},
        b \in { Body("bad", Absent, JAbsent, Absent),
                Body("nonobj", Absent, JAbsent, Absent) } }
    \cup
    UNION { { Scenario([PostRequest("application/json", Body("obj", q, bv, bo))
                          EXCEPT !.q_variables = v, !.q_operationName = o], a) :
                v \in QsVarClasses, o \in {Absent, "A"}, bv \in BodyVarClasses,
                bo \in {Absent, "B"}, a \in AnswersFor(q) } :
            q \in Queries }
    \cup
    { Scenario([PostRequest("application/json", Body("obj", "Q", JAbsent, Absent))
                  EXCEPT !.q_pretty = p], a) :
        p \in Pretties, a \in EngineAnswers }
    \cup
    { Scenario([PostRequest("application/json", Body("obj", "Q", bv, Absent))
                  EXCEPT !.q_variables = v], OkAnswers) :
        v \in {JAbsent} \cup QsVarObjs,
        bv \in {JObj(m) : m \in Maps} \cup {JStr("obj", m) : m \in Maps} }
    \cup
    { Scenario([PostRequest(ct, Body("form", q, bv, bo)) EXCEPT !.q_variables = v],
               OkAnswers) :
        ct \in {"application/x-www-form-urlencoded", "multipart/form-data"},
        q \in Queries, bo \in {Absent, "B"}, v \in {JAbsent, JStr("obj", EmptyMap)},
        bv \in { JAbsent, JStr("bad", EmptyMap), JStr("null", EmptyMap),
                 JStr("empty", EmptyMap) } }
    \cup
    { Scenario([PostRequest("application/x-www-form-urlencoded",
                            Body("form", "Q", JStr("obj", m), Absent))
                  EXCEPT !.q_variables = v], OkAnswers) :
        v \in {JAbsent} \cup QsVarObjs, m \in Maps }
    \cup
    { Scenario([PostRequest("application/graphql", Body("text", q, JAbsent, Absent))
                  EXCEPT !.q_variables = v], OkAnswers) :
        q \in {"", "Q"}, v \in QsVarClasses }
    \cup
    { Scenario([PostRequest("text/plain", NoBody) EXCEPT !.q_query = q], OkAnswers) :
        q \in {Absent, "Q"} }

\* OPTIONS requests (CORS preflights) and requests of another method.
OptionsScenarios ==
    { Scenario([BaseRequest("OPTIONS") EXCEPT !.q_variables = v, !.origin = g,
                  !.acrm = m], OkAnswers) :
        v \in QsVarClasses \cup QsVarObjs, g \in {Absent, "http://x"},
        m \in {Absent, "POST", "post", "PATCH"} }

OtherScenarios ==
    { Scenario([BaseRequest("PUT") EXCEPT !.q_variables = v, !.q_query = q],
               OkAnswers) :
        v \in QsVarClasses \cup QsVarObjs, q \in {Absent, "Q"} }

Scenarios == GetScenarios \cup PostScenarios \cup OptionsScenarios \cup OtherScenarios

(***************************************************************************)
(* Responses                                                               *)
(***************************************************************************)

\* A GraphQLError as the engine or the view builds it: locations and path
\* are "null" (None) when it has none.
Error(message, locations, path) ==
    [message |-> message, locations |-> locations, path |-> path]

SchemaErrors == <<Error("schema: query root type must be provided", "null", "null")>>

SyntaxErrors == <<Error("Syntax Error", "L", "null")>>

ValidationErrors == <<Error("Cannot query field", "L", "null")>>

ExecutionErrors == <<Error("Throws!", "L", "P")>>

\* ExecutionResult(data, errors); no errors is the empty list.
ExecutionResult(data, errors) == [data |-> data, errors |-> errors]

\* The JSON object of a response body: data is Absent when the body has no
\* `data` key; has_errors says whether it has an `errors` key.
BodyValue(data, has_errors, errors) ==
    [data |-> data, has_errors |-> has_errors, errors |-> errors]

NoValue == BodyValue(Absent, FALSE, <<>>)

\* A text: how it is laid out (fmt) and the value it holds.  fmt is "compact"
\* (separators "," and ":"), "indent2" (indent=2), "default" (json.dumps's own
\* separators ", " and ": "), "html" or "none" (no body).
Text(fmt, value) == [fmt |-> fmt, value |-> value]

\* aiohttp.web.Response; exc names the exception when the handler raised
\* instead of returning one.
Response(status, content_type, allow, text) ==
    [ kind |-> "response", exc |-> "none", status |-> status,
      content_type |-> content_type, allow |-> allow, acao |-> Absent,
      acam |-> Absent, acma |-> Absent, text |-> text ]

Raised(exc) ==
    [ kind |-> "exception", exc |-> exc, status |-> 0, content_type |-> Absent,
      allow |-> Absent, acao |-> Absent, acam |-> Absent, acma |-> Absent,
      text |-> Text("none", NoValue) ]

NoResponse ==
    [ kind |-> "none", exc |-> "none", status |-> 0, content_type |-> Absent,
      allow |-> Absent, acao |-> Absent, acam |-> Absent, acma |-> Absent,
      text |-> Text("none", NoValue) ]

(***************************************************************************)
(* The methods of GraphQLView                                              *)
(***************************************************************************)

IsTool(c, request) ==
    /\ c.tool
    /\ Lower(request.method) = "get"
    /\ ~request.q_raw
    /\ \/ Contains(request.accept, "text/html")
       \/ Contains(request.accept, "*/*")

\* request.query.get("pretty") is None without the parameter and the empty
\* string for `?pretty`: both are false to any().
IsPretty(c, request) ==
    \/ c.pretty
    \/ IsTool(c, request)
    \/ request.q_pretty \notin {Absent, ""}

JsonEncode(response, pretty) ==
    IF pretty THEN Text("indent2", response) ELSE Text("compact", response)

ErrorResponse(message, status_code, allow) ==
    Response(status_code, "application/json", allow,
             Text("default",
                  BodyValue(Absent, TRUE, <<Error(message, Absent, Absent)>>)))

\* The entry of one error in the body: x.formatted, with the locations and
\* path keys deleted when they are None.
FormatError_KeepNull(x) == x

FormatError(x) ==
    Error(x.message,
          IF x.locations = "null" THEN Absent ELSE x.locations,
          IF x.path = "null" THEN Absent ELSE x.path)

\* Lines 239-255: the body's object.
ResponseBody_AlwaysErrors(result, invalid) ==
    BodyValue(result.data, TRUE,
              [i \in 1..Len(result.errors) |-> FormatError(result.errors[i])])

ResponseBody(result, invalid) ==
    IF result.errors # <<>>
    THEN BodyValue(IF result.data = "null" /\ invalid THEN Absent ELSE result.data,
                   TRUE,
                   [i \in 1..Len(result.errors) |-> FormatError(result.errors[i])])
    ELSE BodyValue(result.data, FALSE, <<>>)

\* Line 257.
StatusCode_Always200(invalid) == 200

StatusCode(invalid) == IF ~invalid THEN 200 ELSE 400

EncodeResponse(c, request, result, invalid) ==
    Response(StatusCode(invalid), "application/json", Absent,
             JsonEncode(ResponseBody(result, invalid), IsPretty(c, request)))

\* The request object of the request in slot r.
RequestObject(r) == <<"request-1", "request-2">>[r]

\* Python truth of a configured context (None and the empty mapping are
\* false), and isinstance(context, Mapping).
CtxTruthy(context) ==
    \/ context.k = "opaque"
    \/ context.k = "mapping" /\ context.m # NoEntries

IsMapping(context) == context.k = "mapping"

GetContext(c, request) ==
    LET context ==
            IF CtxTruthy(c.context) /\ IsMapping(c.context)
            THEN c.context
            ELSE CtxMapping(NoEntries)
    IN  IF IsMapping(context) /\ context.m["request"] = Absent
        THEN CtxMapping([context.m EXCEPT !["request"] = request])
        ELSE context

\* Which object a context is.  The one given to __init__ is "configured"; an
\* object made while a request is handled (by dict.copy() or by the literal
\* {}) is a new one, named by that request.
ConfiguredObject == "configured"

Copy_SameObject(object, request) == object

Copy(object, request) == request

\* Lines 283-286: the object get_context goes on with.
ContextObject(c, request) ==
    IF CtxTruthy(c.context) /\ IsMapping(c.context)
    THEN Copy(ConfiguredObject, request)
    ELSE request

\* Lines 288-291: update() writes into the object get_context goes on with;
\* this is the configured context once get_context has returned.
ConfiguredAfter(c, request) ==
    IF /\ ContextObject(c, request) = ConfiguredObject
       /\ c.context.m["request"] = Absent
    THEN CtxMapping([c.context.m EXCEPT !["request"] = request])
    ELSE c.context

\* parse_body: [exc, isdict, query, variables, operationName], the last three
\* the items of the dict returned (Absent, JAbsent: no such key).
Parsed(exc, isdict, q, v, o) ==
    [exc |-> exc, isdict |-> isdict, query |-> q, variables |-> v, operationName |-> o]

ParseBody(request) ==
    CASE request.content_type = "application/graphql" ->
           Parsed("none", TRUE, request.body.query, JAbsent, Absent)
      [] request.content_type = "application/json" ->
           IF request.body.k = "bad"
           THEN Parsed("JSONDecodeError", FALSE, Absent, JAbsent, Absent)
           ELSE IF request.body.k = "nonobj"
           THEN Parsed("none", FALSE, Absent, JAbsent, Absent)
           ELSE Parsed("none", TRUE, request.body.query, request.body.variables,
                       request.body.operationName)
      [] request.content_type \in
           {"application/x-www-form-urlencoded", "multipart/form-data"} ->
           Parsed("none", TRUE, request.body.query, request.body.variables,
                  request.body.operationName)
      [] OTHER -> Parsed("none", TRUE, Absent, JAbsent, Absent)

AcceptedMethods == {"GET", "POST", "PUT", "DELETE"}

ProcessPreflight(c, request) ==
    LET origin == IF request.origin = Absent THEN "" ELSE request.origin
        method == IF request.acrm = Absent THEN "" ELSE Upper(request.acrm)
    IN  IF method # "" /\ method \in AcceptedMethods
        THEN [Response(200, "application/octet-stream", Absent, Text("none", NoValue))
                EXCEPT !.acao = origin, !.acam = "GET, POST, PUT, DELETE",
                       !.acma = Str(c.max_age)]
        ELSE Response(400, "application/octet-stream", Absent, Text("none", NoValue))

\* GraphQLTool.render: the template rendered, status 200 by default.
Render(query, variables, operation_name) ==
    Response(200, "text/html", Absent, Text("html", NoValue))

(***************************************************************************)
(* GraphQLView.__call__                                                    *)
(***************************************************************************)

\* The handler's locals.  data is the dict of the operation (parse_body's, or
\* {"query": ...} for a GET); result is the engine's ExecutionResult.
NoLocal ==
    [ variables |-> JAbsent, operation_name |-> Absent,
      data |-> Parsed("none", FALSE, Absent, JAbsent, Absent),
      is_tool |-> FALSE, query |-> Absent, context |-> CtxNone,
      context_object |-> Absent, invalid |-> FALSE, result |-> ExecutionResult("null", <<>>) ]

\* A call of the engine (or of the tool's render): the function called and,
\* of its arguments, variable_values, operation_name and context_value (its
\* entries, and which object it is).
EngineCall(fn) ==
    [ fn |-> fn, variables |-> JAbsent, operation_name |-> Absent,
      context |-> CtxNone, context_object |-> Absent ]

Slots == {1}

Init ==
    /\ cfg \in Configs
    /\ pc = [r \in Slots |-> "idle"]
    /\ req = [r \in Slots |-> BaseRequest("GET")]
    /\ answers = [r \in Slots |-> OkAnswers]
    /\ local = [r \in Slots |-> NoLocal]
    /\ calls = [r \in Slots |-> <<>>]
    /\ resp = [r \in Slots |-> NoResponse]

\* `return response` (or the exception leaving __call__).
Return(r, response) ==
    /\ pc' = [pc EXCEPT ![r] = "done"]
    /\ resp' = [resp EXCEPT ![r] = response]

\* Lines 118-140: the query-string variables are decoded, then the method
\* decides.  A POST goes on to read its body.
Dispatch(c, request) ==
    LET request_method == Lower(request.method)
        loaded == JsonLoads(IF request.q_variables = JAbsent
                            THEN JStr("obj", EmptyMap)
                            ELSE request.q_variables)
        started == [NoLocal EXCEPT !.variables = loaded.val,
                                   !.operation_name = request.q_operationName]
    IN  IF loaded.exc = "JSONDecodeError"
        THEN [next |-> "done", local |-> NoLocal,
              resp |-> ErrorResponse("Variables are invalid JSON.", 400, Absent)]
        ELSE IF request_method = "options"
        THEN [next |-> "done", local |-> started,
              resp |-> ProcessPreflight(c, request)]
        ELSE IF request_method = "post"
        THEN [next |-> "parse_body", local |-> started, resp |-> NoResponse]
        ELSE IF request_method = "get"
        THEN [next |-> "prepare",
              local |-> [started EXCEPT
                           !.data = Parsed("none", TRUE, request.q_query, JAbsent, Absent)],
              resp |-> NoResponse]
        ELSE [next |-> "done", local |-> started,
              resp |-> ErrorResponse("GraphQL only supports GET and POST requests.",
                                     405, "GET, POST")]

Call(r) ==
    /\ pc[r] = "idle"
    /\ \E sc \in Scenarios :
         LET d == Dispatch(cfg, sc.request)
         IN  /\ req' = [req EXCEPT ![r] = sc.request]
             /\ answers' = [answers EXCEPT ![r] = sc.answers]
             /\ local' = [local EXCEPT ![r] = d.local]
             /\ pc' = [pc EXCEPT ![r] = d.next]
             /\ resp' = [resp EXCEPT ![r] = d.resp]
    /\ UNCHANGED <<cfg, calls>>

\* Lines 128-132: the body has been read.
PostBody(r) ==
    /\ pc[r] = "parse_body"
    /\ LET data == ParseBody(req[r])
       IN  IF data.exc = "JSONDecodeError"
           THEN /\ Return(r, ErrorResponse("POST body sent invalid JSON.", 400, Absent))
                /\ UNCHANGED local
           ELSE IF ~data.isdict
           THEN /\ Return(r, Raised("AttributeError"))
                /\ UNCHANGED local
           ELSE /\ local' = [local EXCEPT
                               ![r].data = data,
                               ![r].operation_name =
                                   IF data.operationName # Absent
                                   THEN data.operationName
                                   ELSE local[r].operation_name]
                /\ pc' = [pc EXCEPT ![r] = "prepare"]
                /\ UNCHANGED resp
    /\ UNCHANGED <<cfg, req, answers, calls>>

\* Lines 144-147: [exc, val], val the variables after the update.
MergeVariables(variables, data) ==
    LET vars_dyn == IF Truthy(data.variables) THEN data.variables ELSE JObj(EmptyMap)
        arg == IF vars_dyn.k = "obj" THEN [exc |-> "none", val |-> vars_dyn]
               ELSE JsonLoads(vars_dyn)
    IN  IF variables.k # "obj" THEN [exc |-> "AttributeError", val |-> variables]
        ELSE IF arg.exc # "none" THEN [exc |-> arg.exc, val |-> variables]
        ELSE IF arg.val.k # "obj" THEN [exc |-> "TypeError", val |-> variables]
        ELSE [exc |-> "none", val |-> JObj(Update(variables.m, arg.val.m))]

\* Lines 142-153.
Prepare(r) ==
    /\ pc[r] = "prepare"
    /\ LET is_tool == IsTool(cfg, req[r])
           merged == MergeVariables(local[r].variables, local[r].data)
       IN  IF merged.exc # "none"
           THEN /\ Return(r, Raised(merged.exc))
                /\ local' = [local EXCEPT ![r].is_tool = is_tool]
                /\ UNCHANGED cfg
           ELSE /\ local' = [local EXCEPT
                               ![r].is_tool = is_tool,
                               ![r].variables = merged.val,
                               ![r].query = local[r].data.query,
                               ![r].context = GetContext(cfg, RequestObject(r)),
                               ![r].context_object =
                                   ContextObject(cfg, RequestObject(r)),
                               ![r].invalid = FALSE]
                /\ cfg' = [cfg EXCEPT
                             !.context = ConfiguredAfter(cfg, RequestObject(r))]
                /\ pc' = [pc EXCEPT ![r] = IF is_tool THEN "render" ELSE "validate"]
                /\ UNCHANGED resp
    /\ UNCHANGED <<req, answers, calls>>

\* Line 153: the tool's page.
ToolRender(r) ==
    /\ pc[r] = "render"
    /\ calls' = [calls EXCEPT ![r] = Append(@,
                   [EngineCall("render") EXCEPT
                      !.variables = local[r].variables,
                      !.operation_name = local[r].operation_name])]
    /\ Return(r, Render(local[r].query, local[r].variables, local[r].operation_name))
    /\ UNCHANGED <<cfg, req, answers, local>>

OperationMessage(op) ==
    CASE op = "mutation" -> "Can only perform a mutation operation from a POST request."
      [] op = "subscription" ->
           "Can only perform a subscription operation from a POST request."
      [] OTHER -> "Can only perform a query operation from a POST request."

\* Line 181: a GET may only run a query operation.
PostOnly_MutationOnly(request_method, operation) ==
    request_method = "get" /\ operation = "mutation"

PostOnly(request_method, operation) ==
    request_method = "get" /\ operation # "query"

\* Lines 155-206 with an operation that cannot be resolved answered at once.
Pipeline_UnresolvedRejected(c, request, a, loc) ==
    LET Rejected(fns, result) ==
            [calls |-> fns, done |-> TRUE, invalid |-> TRUE,
             resp |-> EncodeResponse(c, request, result, TRUE)]
    IN  IF loc.data.query \in {Absent, ""}
        THEN Rejected(<<>>, ExecutionResult("null",
                 <<Error("Must provide query string.", "null", "null")>>))
        ELSE IF a.schema_errors
        THEN Rejected(<<"validate_schema">>, ExecutionResult("null", SchemaErrors))
        ELSE IF ~a.parse_ok
        THEN Rejected(<<"validate_schema", "parse">>,
                      ExecutionResult("null", SyntaxErrors))
        ELSE IF a.op = "none"
        THEN Rejected(<<"validate_schema", "parse", "get_operation_ast">>,
                      ExecutionResult("null", ValidationErrors))
        ELSE IF PostOnly(Lower(request.method), a.op)
        THEN [calls |-> <<"validate_schema", "parse", "get_operation_ast">>,
              done |-> TRUE, invalid |-> FALSE,
              resp |-> ErrorResponse(OperationMessage(a.op), 405, "POST")]
        ELSE IF a.validation_errors
        THEN Rejected(<<"validate_schema", "parse", "get_operation_ast", "validate">>,
                      ExecutionResult("null", ValidationErrors))
        ELSE [calls |-> <<"validate_schema", "parse", "get_operation_ast", "validate">>,
              done |-> FALSE, invalid |-> FALSE, resp |-> NoResponse]

\* Lines 155-206: [calls, done, resp, invalid].  calls are the engine's
\* functions called, in order; done says whether a response is returned.
Pipeline(c, request, a, loc) ==
    LET Rejected(fns, result) ==
            [calls |-> fns, done |-> TRUE, invalid |-> TRUE,
             resp |-> EncodeResponse(c, request, result, TRUE)]
    IN  IF loc.data.query \in {Absent, ""}
        THEN Rejected(<<>>, ExecutionResult("null",
                 <<Error("Must provide query string.", "null", "null")>>))
        ELSE IF a.schema_errors
        THEN Rejected(<<"validate_schema">>, ExecutionResult("null", SchemaErrors))
        ELSE IF ~a.parse_ok
        THEN Rejected(<<"validate_schema", "parse">>,
                      ExecutionResult("null", SyntaxErrors))
        ELSE IF a.op # "none" /\ PostOnly(Lower(request.method), a.op)
        THEN [calls |-> <<"validate_schema", "parse", "get_operation_ast">>,
              done |-> TRUE, invalid |-> FALSE,
              resp |-> ErrorResponse(OperationMessage(a.op), 405, "POST")]
        ELSE IF a.validation_errors
        THEN Rejected(<<"validate_schema", "parse", "get_operation_ast", "validate">>,
                      ExecutionResult("null", ValidationErrors))
        ELSE [calls |-> <<"validate_schema", "parse", "get_operation_ast", "validate">>,
              done |-> FALSE, invalid |-> (a.op = "none"), resp |-> NoResponse]

Validate(r) ==
    /\ pc[r] = "validate"
    /\ LET p == Pipeline(cfg, req[r], answers[r], local[r])
       IN  /\ calls' = [calls EXCEPT ![r] =
                          @ \o [i \in 1..Len(p.calls) |-> EngineCall(p.calls[i])]]
           /\ local' = [local EXCEPT ![r].invalid = p.invalid]
           /\ pc' = [pc EXCEPT ![r] = IF p.done THEN "done" ELSE "execute"]
           /\ resp' = [resp EXCEPT ![r] = p.resp]
    /\ UNCHANGED <<cfg, req, answers>>

\* Lines 208-229: the engine's execute is called.
Execute(r) ==
    /\ pc[r] = "execute"
    /\ calls' = [calls EXCEPT ![r] = Append(@,
                   [EngineCall("execute") EXCEPT
                      !.variables = local[r].variables,
                      !.operation_name = local[r].operation_name,
                      !.context = local[r].context,
                      !.context_object = local[r].context_object])]
    /\ local' = [local EXCEPT ![r].result =
                   ExecutionResult(answers[r].data,
                                   IF answers[r].errors THEN ExecutionErrors ELSE <<>>)]
    /\ pc' = [pc EXCEPT ![r] = "respond"]
    /\ UNCHANGED <<cfg, req, answers, resp>>

\* Lines 231-233.
Respond(r) ==
    /\ pc[r] = "respond"
    /\ Return(r, EncodeResponse(cfg, req[r], local[r].result, local[r].invalid))
    /\ UNCHANGED <<cfg, req, answers, local, calls>>

\* The response has been sent: the view is ready for the next request.
Deliver(r) ==
    /\ pc[r] = "done"
    /\ pc' = [pc EXCEPT ![r] = "idle"]
    /\ req' = [req EXCEPT ![r] = BaseRequest("GET")]
    /\ answers' = [answers EXCEPT ![r] = OkAnswers]
    /\ local' = [local EXCEPT ![r] = NoLocal]
    /\ calls' = [calls EXCEPT ![r] = <<>>]
    /\ resp' = [resp EXCEPT ![r] = NoResponse]
    /\ UNCHANGED cfg

Next ==
    \E r \in Slots :
      \/ Call(r)
      \/ PostBody(r)
      \/ Prepare(r)
      \/ ToolRender(r)
      \/ Validate(r)
      \/ Execute(r)
      \/ Respond(r)
      \/ Deliver(r)

Spec == Init /\ [][Next]_vars

\* The view handling two requests at a time: each request is handled by a
\* task of its own, and the tasks take their steps in any order.
Tasks == {1, 2}

InitInterleaved ==
    /\ cfg \in Configs
    /\ pc = [r \in Tasks |-> "idle"]
    /\ req = [r \in Tasks |-> BaseRequest("GET")]
    /\ answers = [r \in Tasks |-> OkAnswers]
    /\ local = [r \in Tasks |-> NoLocal]
    /\ calls = [r \in Tasks |-> <<>>]
    /\ resp = [r \in Tasks |-> NoResponse]

\* The requests the two tasks handle: a GET of a browser and one of a
\* client, with and without a query; POSTs whose body variables are a
\* mapping or no JSON; a query with an execution error.
InterleavedScenarios ==
    { Scenario([BaseRequest("GET") EXCEPT !.q_query = q, !.accept = h], OkAnswers) :
        q \in {Absent, "Q"}, h \in {"text/html", "application/json"} }
    \cup
    { Scenario(PostRequest("application/json", Body("obj", "Q", bv, Absent)), a) :
        bv \in {JObj(EmptyMap), JStr("bad", EmptyMap)},
        a \in {OkAnswers, Answers(FALSE, TRUE, "mutation", FALSE, "null", TRUE)} }

CallInterleaved(r) ==
    /\ pc[r] = "idle"
    /\ \E sc \in InterleavedScenarios :
         LET d == Dispatch(cfg, sc.request)
         IN  /\ req' = [req EXCEPT ![r] = sc.request]
             /\ answers' = [answers EXCEPT ![r] = sc.answers]
             /\ local' = [local EXCEPT ![r] = d.local]
             /\ pc' = [pc EXCEPT ![r] = d.next]
             /\ resp' = [resp EXCEPT ![r] = d.resp]
    /\ UNCHANGED <<cfg, calls>>

NextInterleaved ==
    \E r \in Tasks :
      \/ CallInterleaved(r)
      \/ PostBody(r)
      \/ Prepare(r)
      \/ ToolRender(r)
      \/ Validate(r)
      \/ Execute(r)
      \/ Respond(r)
      \/ Deliver(r)

SpecInterleaved == InitInterleaved /\ [][NextInterleaved]_vars

(***************************************************************************)
(* Properties                                                              *)
(***************************************************************************)

\* The engine functions called for the request in slot r.
Called(r) == {calls[r][i].fn : i \in 1..Len(calls[r])}

EngineInvoked(r) == Called(r) \cap {"parse", "validate", "execute"} # {}

\* The request in slot r has been answered / answered by a response.
Done(r) == pc[r] = "done"

Answered(r) == Done(r) /\ resp[r].kind = "response"

\* The response is a GraphQL (application/json) response.
IsJson(r) == Answered(r) /\ resp[r].content_type = "application/json"

\* The body is exactly one error that has a message and nothing else.
SingleMessage(r, message) ==
    /\ resp[r].text.value.has_errors
    /\ resp[r].text.value.errors = <<Error(message, Absent, Absent)>>
    /\ resp[r].text.value.data = Absent

\* The `query` of the operation a request carries: the query-string
\* parameter of a GET, the body's for a POST.
OperationQuery(request) ==
    IF Lower(request.method) = "post" THEN ParseBody(request).query
    ELSE request.q_query

MissingQuery(request) == OperationQuery(request) \in {Absent, ""}

\* The tool negotiation of section 4.2, on the request as received.
Negotiated(r) ==
    /\ cfg.tool
    /\ req[r].method = "GET"
    /\ ~req[r].q_raw
    /\ req[r].accept \in {"text/html", "*/*"}

\* The query-string variables are missing or the text of a JSON object; the
\* body is one an operation is read from; the body's variables are missing,
\* false, a mapping or the text of a JSON object.
QsVariablesDecode(request) ==
    request.q_variables = JAbsent \/ request.q_variables.s = "obj"

BodyDecodes(request) ==
    request.method = "POST" => request.body.k \notin {"bad", "nonobj"}

BodyVariablesDecode(request) ==
    request.method = "POST" =>
      LET v == request.body.variables
      IN  v.k \in {"absent", "null", "obj"} \/ (v.k = "str" /\ v.s \in {"empty", "obj"})

\* C1 as stated: every request without a (non-empty) query, whatever its
\* method, headers and the view's configuration, is answered 400 with the one
\* error "Must provide query string." and no data key, the engine not invoked.
C1_AsStated ==
    \A r \in Slots :
      (Done(r) /\ MissingQuery(req[r])) =>
        /\ Answered(r)
        /\ resp[r].status = 400
        /\ SingleMessage(r, "Must provide query string.")
        /\ ~EngineInvoked(r)

\* C1, amended: a GET or POST request that is not answered by the tool, whose
\* query-string variables, body and body variables decode, and whose operation
\* has no (non-empty) query is answered 400 with the one error "Must provide
\* query string." and no data key; and for no request without a query,
\* whatever its method, is the engine's parse, validate or execute invoked.
C1_MissingQuery ==
    \A r \in Slots :
      (Done(r) /\ MissingQuery(req[r])) =>
        /\ ~EngineInvoked(r)
        /\ ( /\ req[r].method \in {"GET", "POST"}
             /\ ~Negotiated(r)
             /\ QsVariablesDecode(req[r])
             /\ BodyDecodes(req[r])
             /\ BodyVariablesDecode(req[r]) )
           => /\ IsJson(r)
              /\ resp[r].status = 400
              /\ SingleMessage(r, "Must provide query string.")

C1_Witness ==
    \E r \in Slots :
      /\ Done(r)
      /\ req[r].method = "POST"
      /\ req[r].content_type = "application/json"
      /\ req[r].body.k = "obj"
      /\ req[r].body.query = ""
      /\ resp[r].status = 400
      /\ SingleMessage(r, "Must provide query string.")

\* The request was rejected for its method, or for a GET of an operation that
\* is no query.
MethodRejected(r) == req[r].method \notin {"GET", "POST", "OPTIONS"}

OperationRejected(r) ==
    /\ req[r].method = "GET"
    /\ "get_operation_ast" \in Called(r)
    /\ answers[r].op \in {"mutation", "subscription"}

\* C2 as stated: a GraphQL response has status 200 only when it carries no
\* errors; with an errors list its status is 400, or 405 for an unsupported
\* method and for a GET of an operation that is no query.
C2_AsStated ==
    \A r \in Slots :
      IsJson(r) =>
        /\ resp[r].status = 200 => ~resp[r].text.value.has_errors
        /\ resp[r].text.value.has_errors =>
             \/ resp[r].status = 400
             \/ resp[r].status = 405 /\ (MethodRejected(r) \/ OperationRejected(r))

\* C2, amended: a GraphQL response has status 200 only when no stage before
\* execution rejected the request and an operation was resolved (execute was
\* invoked for a resolved operation); with an errors list its status is 400,
\* except 405 for an unsupported method and for a GET of an operation that is
\* no query, and except 200 when the errors are those the execution of a
\* resolved operation returned.
C2_Status ==
    \A r \in Slots :
      IsJson(r) =>
        /\ resp[r].status \in {200, 400, 405}
        /\ resp[r].status = 200 =>
             "execute" \in Called(r) /\ answers[r].op # "none"
        /\ resp[r].status = 405 => (MethodRejected(r) \/ OperationRejected(r))
        /\ resp[r].text.value.has_errors =>
             \/ resp[r].status = 400
             \/ resp[r].status = 405 /\ (MethodRejected(r) \/ OperationRejected(r))
             \/ /\ resp[r].status = 200
                /\ answers[r].errors
                /\ resp[r].text.value.errors = ExecutionErrors

C2_Witness ==
    \E r \in Slots :
      /\ IsJson(r)
      /\ resp[r].status = 200
      /\ resp[r].text.value.has_errors
      /\ "execute" \in Called(r)

\* C3: a GET request whose query parses and whose resolved operation is a
\* mutation or a subscription is answered 405 with Allow: POST and the message
\* naming the operation type, and execute is never invoked for it.
C3_GetOnlyQueries ==
    \A r \in Slots :
      (Done(r) /\ OperationRejected(r)) =>
        /\ IsJson(r)
        /\ resp[r].status = 405
        /\ resp[r].allow = "POST"
        /\ SingleMessage(r, OperationMessage(answers[r].op))
        /\ "execute" \notin Called(r)

C3_Witness ==
    \E r \in Slots :
      /\ Done(r)
      /\ OperationRejected(r)
      /\ answers[r].op = "subscription"
      /\ resp[r].status = 405
      /\ resp[r].allow = "POST"

\* C4: a GET or POST request that passes every stage before execution, with
\* an operation resolved, and whose execution returns no errors is answered
\* 200, application/json, with the body {"data": <the result's data>} and no
\* errors key.
C4_Success ==
    \A r \in Slots :
      ( /\ Done(r)
        /\ "execute" \in Called(r)
        /\ answers[r].op # "none"
        /\ ~answers[r].errors ) =>
          /\ IsJson(r)
          /\ resp[r].status = 200
          /\ resp[r].text.value = BodyValue(answers[r].data, FALSE, <<>>)

C4_Witness ==
    \E r \in Slots :
      /\ Done(r)
      /\ req[r].method = "GET"
      /\ "execute" \in Called(r)
      /\ ~answers[r].errors
      /\ resp[r].status = 200
      /\ resp[r].text.value = BodyValue("D", FALSE, <<>>)

\* C5 as stated: an OPTIONS request, whatever its query string, is answered
\* by the preflight alone: 200 with the three CORS headers when the requested
\* method, upper-cased, is one of GET, POST, PUT, DELETE, and 400 with an
\* empty body otherwise.
C5_AsStated ==
    \A r \in Slots :
      (Done(r) /\ req[r].method = "OPTIONS") =>
        IF req[r].acrm # Absent /\ Upper(req[r].acrm) \in {"GET", "POST", "PUT", "DELETE"}
        THEN /\ Answered(r)
             /\ resp[r].status = 200
             /\ resp[r].acao = (IF req[r].origin = Absent THEN "" ELSE req[r].origin)
             /\ resp[r].acam = "GET, POST, PUT, DELETE"
             /\ resp[r].acma = Str(cfg.max_age)
        ELSE /\ Answered(r)
             /\ resp[r].status = 400
             /\ resp[r].text.fmt = "none"

\* The mappings of variables a request carries: in its query string (none:
\* the empty mapping) and in its body (a mapping, or a string holding one).
QsMap(request) == request.q_variables.m

BodyMap(request) ==
    LET v == request.body.variables
    IN  IF v.k = "obj" \/ (v.k = "str" /\ v.s = "obj") THEN v.m ELSE EmptyMap

\* The execute calls made for the request in slot r.
Executions(r) == {i \in 1..Len(calls[r]) : calls[r][i].fn = "execute"}

\* C6: the variables execute receives for a POST request are the
\* query-string variables with the body's laid over them (a name in both has
\* the body's value, a name in one keeps that one's value); for a GET request
\* they are the query-string variables.
C6_VariablesMerged ==
    \A r \in Slots : \A i \in Executions(r) :
      /\ calls[r][i].variables.k = "obj"
      /\ \A k \in Keys :
           calls[r][i].variables.m[k] =
             IF req[r].method = "POST" /\ BodyMap(req[r])[k] # 0
             THEN BodyMap(req[r])[k]
             ELSE QsMap(req[r])[k]

\* The example of the specification: {"a": 1} in the query string and
\* {"b": 2} in a POST body give {"a": 1, "b": 2}; and a name in both.
C6_Witness ==
    \E r \in Slots : \E i \in Executions(r) :
      /\ req[r].method = "POST"
      /\ QsMap(req[r]) = [k \in Keys |-> IF k = "a" THEN 1 ELSE 0]
      /\ BodyMap(req[r]) = [k \in Keys |-> IF k = "b" THEN 2 ELSE 0]
      /\ calls[r][i].variables = JObj([k \in Keys |-> IF k = "a" THEN 1 ELSE 2])

\* The body is one error that has a message and nothing else.
MessageOnly(r) ==
    /\ resp[r].text.value.has_errors
    /\ Len(resp[r].text.value.errors) = 1
    /\ resp[r].text.value.errors[1].locations = Absent
    /\ resp[r].text.value.errors[1].path = Absent
    /\ resp[r].text.value.data = Absent

QsVariablesMalformed(request) ==
    request.q_variables.k = "str" /\ request.q_variables.s \in {"bad", "empty"}

\* C7 as stated: malformed JSON is answered 400 with one message-only error,
\* the engine not invoked, and never with an exception: "Variables are invalid
\* JSON." for the query-string variables of a GET or POST, "POST body sent
\* invalid JSON." for an application/json POST body, and a 400 likewise for a
\* POST whose body `variables` is a string that is not JSON.
C7_AsStated ==
    \A r \in Slots :
      Done(r) =>
        /\ (req[r].method \in {"GET", "POST"} /\ QsVariablesMalformed(req[r])) =>
             /\ Answered(r)
             /\ resp[r].status = 400
             /\ SingleMessage(r, "Variables are invalid JSON.")
             /\ ~EngineInvoked(r)
        /\ ( /\ req[r].method = "POST"
             /\ req[r].content_type = "application/json"
             /\ req[r].body.k = "bad"
             /\ ~QsVariablesMalformed(req[r]) ) =>
             /\ Answered(r)
             /\ resp[r].status = 400
             /\ SingleMessage(r, "POST body sent invalid JSON.")
             /\ ~EngineInvoked(r)
        /\ ( /\ req[r].method = "POST"
             /\ req[r].body.k \in {"obj", "form"}
             /\ req[r].body.variables.k = "str"
             /\ req[r].body.variables.s = "bad" ) =>
             /\ Answered(r)
             /\ resp[r].status = 400
             /\ MessageOnly(r)
             /\ ~EngineInvoked(r)

\* C8 as stated: a GET or POST request is answered by the tool's page (200,
\* text/html, the engine not invoked) exactly when a tool is configured, the
\* method is GET, the query string has no `raw` and Accept holds text/html or
\* */*; every other GET or POST request gets an application/json response.
C8_AsStated ==
    \A r \in Slots :
      (Done(r) /\ req[r].method \in {"GET", "POST"}) =>
        IF Negotiated(r)
        THEN /\ Answered(r)
             /\ resp[r].status = 200
             /\ resp[r].content_type = "text/html"
             /\ Called(r) \subseteq {"render"}
        ELSE IsJson(r)

\* C9 as stated: an application/json body is indented by 2 exactly when the
\* pretty flag is configured, or the tool negotiation holds, or the query
\* string has a `pretty` parameter (of any value, the empty one too), and is
\* compact otherwise.
C9_AsStated ==
    \A r \in Slots :
      IsJson(r) =>
        resp[r].text.fmt =
          IF cfg.pretty \/ Negotiated(r) \/ req[r].q_pretty # Absent
          THEN "indent2"
          ELSE "compact"

\* C10 as stated: execute receives a copy of a configured mapping with the
\* request put under `request` unless that key is there; a mapping holding
\* only `request` when no context is configured; and a configured value that
\* is no mapping as it is.
C10_AsStated ==
    \A r \in Slots : \A i \in Executions(r) :
      calls[r][i].context =
        CASE cfg.context.k = "mapping" ->
               IF cfg.context.m["request"] = Absent
               THEN CtxMapping([cfg.context.m EXCEPT !["request"] = RequestObject(r)])
               ELSE cfg.context
          [] cfg.context.k = "none" ->
               CtxMapping([NoEntries EXCEPT !["request"] = RequestObject(r)])
          [] OTHER -> cfg.context

\* The engine's functions in the order of the stages of the handler, and
\* those of them called for the request in slot r, in the order called.
Stages == <<"validate_schema", "parse", "get_operation_ast", "validate", "execute">>

IsStage(call) == \E i \in 1..Len(Stages) : Stages[i] = call.fn

StageCalls(r) ==
    LET staged == SelectSeq(calls[r], IsStage)
    IN  [i \in 1..Len(staged) |-> staged[i].fn]

\* Each stage is called once, after all the stages before it.
InStageOrder(r) ==
    /\ Len(StageCalls(r)) <= Len(Stages)
    /\ StageCalls(r) = SubSeq(Stages, 1, Len(StageCalls(r)))

\* The request has a query and the engine rejects it at no stage: the schema
\* has no errors, the query parses, the operation is not one a GET may not
\* run, and the document has no errors.
PassesStages(r) ==
    /\ ~MissingQuery(req[r])
    /\ ~answers[r].schema_errors
    /\ answers[r].parse_ok
    /\ ~(req[r].method = "GET" /\ answers[r].op \in {"mutation", "subscription"})
    /\ ~answers[r].validation_errors

\* The resolution of the operation was tried and found none.
Unresolved(r) == "get_operation_ast" \in Called(r) /\ answers[r].op = "none"

\* The request reaches the stages: it is no negotiated GET, and its
\* query-string variables, body and body variables decode.
ReachesStages(r) ==
    /\ req[r].method \in {"GET", "POST"}
    /\ ~Negotiated(r)
    /\ QsVariablesDecode(req[r])
    /\ BodyDecodes(req[r])
    /\ BodyVariablesDecode(req[r])

\* C11 as stated: the stages are called in their order; execute is invoked
\* for a GET or POST request exactly when it has a query and no stage rejects
\* it, whatever else the request holds; an operation that cannot be resolved
\* does not stop execute, and the request is answered 400.
C11_AsStated ==
    \A r \in Slots :
      /\ InStageOrder(r)
      /\ (Done(r) /\ req[r].method \in {"GET", "POST"}) =>
           ("execute" \in Called(r) <=> PassesStages(r))
      /\ (Done(r) /\ Unresolved(r)) =>
           /\ Answered(r)
           /\ resp[r].status = 400
           /\ ~answers[r].validation_errors => "execute" \in Called(r)

\* C11, amended: the stages are called in their order, each after all those
\* before it; execute is invoked only for a GET or POST request that has a
\* query and that no stage rejects, and it is invoked for every such request
\* that reaches the stages (one not answered by the tool, whose query-string
\* variables, body and body variables decode); an operation that cannot be
\* resolved does not stop execute when the document validates, and the
\* request is answered 400.
C11_Stages ==
    \A r \in Slots :
      /\ InStageOrder(r)
      /\ "execute" \in Called(r) =>
           req[r].method \in {"GET", "POST"} /\ PassesStages(r)
      /\ (Done(r) /\ ReachesStages(r) /\ PassesStages(r)) => "execute" \in Called(r)
      /\ (Done(r) /\ Unresolved(r)) =>
           /\ IsJson(r)
           /\ resp[r].status = 400
           /\ ~answers[r].validation_errors => "execute" \in Called(r)

C11_Witness ==
    \E r \in Slots :
      /\ Done(r)
      /\ ReachesStages(r)
      /\ PassesStages(r)
      /\ Unresolved(r)
      /\ StageCalls(r) = Stages
      /\ resp[r].status = 400

\* The context execute received for the request of task r at its call i has
\* under `request` the request of that task.
OwnRequest(r, i) == calls[r][i].context.m["request"] = RequestObject(r)

\* The contexts execute received are objects made for the request: none is
\* the configured object, and no two tasks were handed the same object.
FreshContexts ==
    \A r \in Tasks : \A i \in Executions(r) :
      /\ calls[r][i].context_object # ConfiguredObject
      /\ \A t \in Tasks \ {r} : \A j \in Executions(t) :
           calls[t][j].context_object # calls[r][i].context_object

\* C12 as stated: no step of any task changes the configuration (the
\* configured context keeps its keys and values); the contexts handed to
\* execute for two requests are distinct objects; and the `request` entry of
\* each is always that request's own.
C12_AsStated ==
    /\ [][cfg' = cfg]_vars
    /\ [](FreshContexts /\ \A r \in Tasks : \A i \in Executions(r) : OwnRequest(r, i))

\* C12, amended: no step of any task changes the configuration; the contexts
\* handed to execute for two requests are distinct objects, none of them the
\* configured one; and the `request` entry of each is that request's own
\* unless the configured mapping has a `request` key itself, whose value
\* every request then sees.
C12_Isolation ==
    /\ [][cfg' = cfg]_vars
    /\ [](/\ FreshContexts
          /\ \A r \in Tasks : \A i \in Executions(r) :
               IF IsMapping(cfg.context) /\ cfg.context.m["request"] # Absent
               THEN calls[r][i].context = cfg.context
               ELSE OwnRequest(r, i))

\* Two requests executed side by side under a configured mapping that has no
\* `request` key: each has its own request and the configured entries.
C12_Witness ==
    /\ cfg.context = CtxMapping([NoEntries EXCEPT !["user"] = "cfg-user"])
    /\ \A r \in Tasks :
         /\ pc[r] = "respond"
         /\ \E i \in Executions(r) :
              /\ OwnRequest(r, i)
              /\ calls[r][i].context.m["user"] = "cfg-user"
    /\ \E i \in Executions(1) : \E j \in Executions(2) :
         calls[1][i].context # calls[2][j].context

====
